---- MODULE Spec2Model ----
(***************************************************************************)
(* Location privacy and proximity search of LocationServer.                *)
(*                                                                         *)
(* The model follows routers/location_router.py (update_location,          *)
(* /nearby_by_coordinates, /nearby), encryption.py, config.py, the body of *)
(* /api/find_nearest of tracker.py, /api/nearby of location_router.py and  *)
(* the friends handlers of routers/friend_router.py.  The                  *)
(* user_locations table is a set of rows; every SQL statement is one       *)
(* atomic step of the store, and the Python code that runs between two     *)
(* statements of a request belongs to the step of the statement before it. *)
(* Time is counted in hours.  Coordinates are fixed-point numbers, in units *)
(* of 1/100000 degree; distances are in units of 1/10000 km, and           *)
(* distance_km in a response is in units of 1/100 km.                      *)
(***************************************************************************)
EXTENDS Integers, Sequences, FiniteSets, TLC

VARIABLES
    AES_KEY,          \* encryption.py: module-level key of the running process
    user_locations,   \* the user_locations table: a set of rows
    now,              \* the store's clock (NOW(), CURRENT_TIMESTAMP), in hours
    pc,               \* position of the query request in flight
    req,              \* the request body of the query in flight
    user_location,    \* /nearby: the requester's row (<<>> when none)
    time_window,      \* /nearby: the local time_window
    other_locations,  \* the candidate rows as last fetched
    response,         \* the response of the query, once it has ended
    pending,          \* update_location calls that have not reached the store
    updates,          \* number of update_location calls so far
    last_call,        \* the last POST /update_location body received, its
                      \* answer, and the table as the call found it
    friendship_requests,  \* the friendship_requests table: a set of rows
    friendships,      \* the friendships table: a set of rows
    store_errors      \* number of store calls that have raised so far

friendVars == <<friendship_requests, friendships>>
storeVars == <<AES_KEY, user_locations, now, pending, updates, last_call,
               friendVars, store_errors>>
queryVars == <<pc, req, user_location, time_window, other_locations,
               response>>
vars == <<AES_KEY, user_locations, now, pending, updates, last_call,
          friendship_requests, friendships, store_errors, pc, req,
          user_location, time_window, other_locations, response>>

-----------------------------------------------------------------------------
(* Bounds of the model *)

\* the clock advances at most this many times
MaxTicks == 2

\* at most this many update_location calls are made
MaxUpdates == 2

\* at most this many update_location calls are in flight at a time
MaxPending == 2

Users == {"u1", "u2"}

\* values of the ENCRYPTION_KEY environment variable over process restarts
Secrets == {"s1", "s2"}

\* 12 random bytes of urandom
IVs == {1}

\* one degree, in the unit of latitude and longitude
Degree == 100000

Latitudes == {0}
Longitudes == {0, Degree}

\* the clock advances by this number of hours at a time: a timestamp is
\* then 0 hours old (inside 48 hours), 100 hours old (inside 7 days only)
\* or 200 hours old (outside both windows)
TickHours == 100

\* limit values of a request: below, inside and above [1, 100]
Limits == {0, 1, 101}

\* max_distance_km values of a request (<<>> is None), in 1/10000 km: None
\* and 50 km
MaxDistances == {<<>>, <<500000>>}

-----------------------------------------------------------------------------
(* models/location_models.py *)

VisibilityState == {"public", "hidden", "private"}

-----------------------------------------------------------------------------
(* config.py, encryption.py *)

\* os.getenv('ENCRYPTION_KEY') when the variable is not set
NoSecret == "None"

\* config.py line 40 has raised while encryption.py was imported: the
\* process has not started
StartupFailed ==
    [raised |-> "Missing required environment variable: ENCRYPTION_KEY"]

derive_encryption_key(secret) ==
    IF secret = NoSecret THEN StartupFailed
    ELSE [kdf |-> "PBKDF2HMAC-SHA256", salt |-> "static_salt",
          secret |-> secret]

\* as Serving, with the key derived at the first request instead of at import
ServingAlways == TRUE

\* the process is running: its modules were imported
Serving == AES_KEY # StartupFailed

Abs(x) == IF x < 0 THEN -x ELSE x

\* the decimal digits of a natural number, and back
RECURSIVE Digits(_)
Digits(n) == IF n < 10 THEN <<n>> ELSE Digits(n \div 10) \o <<n % 10>>

RECURSIVE DigitsValue(_)
DigitsValue(digits) ==
    IF digits = <<>> THEN 0
    ELSE DigitsValue(SubSeq(digits, 1, Len(digits) - 1)) * 10
         + digits[Len(digits)]

\* as FloatRepr, without the sign
FloatReprUnsigned(x) ==
    [type |-> "number", negative |-> FALSE, digits |-> Digits(Abs(x))]

\* json.dumps of a float: its sign and its digits
FloatRepr(x) ==
    [type |-> "number", negative |-> x < 0, digits |-> Digits(Abs(x))]

\* json.dumps({"lat": latitude, "lon": longitude})
json_dumps(data) ==
    [type |-> "object",
     members |-> [lat |-> FloatRepr(data.lat), lon |-> FloatRepr(data.lon)]]

\* the Python value of a JSON text that is a member of an object: a number
\* becomes a float, any other text stays what it is
JsonValue(text) ==
    IF text.type = "number"
    THEN (IF text.negative THEN -1 ELSE 1) * DigitsValue(text.digits)
    ELSE text

\* json.loads: a dict for an object, a list for an array, and an exception
\* for a text that is not JSON
json_loads(text) ==
    IF text.type = "object"
    THEN [ok |-> TRUE, type |-> "dict",
          value |-> [k \in DOMAIN text.members |->
                        JsonValue(text.members[k])]]
    ELSE IF text.type = "array"
    THEN [ok |-> TRUE, type |-> "list", value |-> text.items]
    ELSE [ok |-> FALSE, type |-> "none", value |-> <<>>]

\* AES-GCM: the ciphertext and the tag are bound to the key and the nonce
GcmCiphertext(key, iv, data) == [key |-> key, iv |-> iv, data |-> data]
GcmTag(key, iv, ciphertext) == [key |-> key, iv |-> iv, over |-> ciphertext]

b64encode(raw) == <<"b64", raw>>
b64decode(text) == text[2]

encrypt_location(latitude, longitude, iv) ==
    LET data == json_dumps([lat |-> latitude, lon |-> longitude])
        ciphertext == GcmCiphertext(AES_KEY, iv, data)
        tag == GcmTag(AES_KEY, iv, ciphertext)
    IN  b64encode([iv |-> iv, tag |-> tag, ciphertext |-> ciphertext])

DecryptionFailed == [ok |-> FALSE, lat |-> 0, lon |-> 0]

\* lines 22-31: every exception becomes HTTPException(500); the values of
\* "lat" and "lon" are returned as json.loads gives them
decrypt_location(encrypted_data) ==
    IF encrypted_data[1] # "b64" THEN DecryptionFailed
    ELSE
      LET raw_data == b64decode(encrypted_data)
      IN  IF DOMAIN raw_data # {"iv", "tag", "ciphertext"}
          THEN DecryptionFailed
          ELSE
            LET iv == raw_data.iv
                tag == raw_data.tag
                ciphertext == raw_data.ciphertext
            IN  IF tag # GcmTag(AES_KEY, iv, ciphertext)
                THEN DecryptionFailed
                ELSE
                  LET location == json_loads(ciphertext.data)
                  IN  IF ~location.ok \/ location.type # "dict"
                      THEN DecryptionFailed
                      ELSE IF ~({"lat", "lon"} \subseteq
                                    DOMAIN location.value)
                      THEN DecryptionFailed
                      ELSE [ok |-> TRUE, lat |-> location.value.lat,
                            lon |-> location.value.lon]

-----------------------------------------------------------------------------
(* geopy.distance.geodesic and round(distance, 2) *)

\* between two points of the equator: one degree of longitude on the WGS-84
\* equator is 111.3195 km, and 1/100000 degree is 11.13195 units of distance
geodesic(p, q) ==
    LET d == Abs(p[2] - q[2]) \div Degree
        f == Abs(p[2] - q[2]) % Degree
    IN  d * 1113195 + f * 11 + (f * 13195) \div Degree

\* round(distance, 2): to 1/100 km, halves to the even neighbour
round2(distance) ==
    LET q == distance \div 100
        r == distance % 100
    IN  IF r > 50 \/ (r = 50 /\ q % 2 = 1) THEN q + 1 ELSE q

-----------------------------------------------------------------------------
(* The user_locations table (app.py, init_db) and the SQL of the router *)

Row(user_id, encrypted_data, visibility, timestamp) ==
    [user_id |-> user_id, encrypted_data |-> encrypted_data,
     visibility |-> visibility, timestamp |-> timestamp]

\* as Upsert, with ON CONFLICT (user_id) DO NOTHING
UpsertDoNothing(table, row) ==
    IF \E r \in table : r.user_id = row.user_id THEN table
    ELSE table \cup {row}

\* as Upsert, with DO UPDATE SET encrypted_data = $2, timestamp =
\* CURRENT_TIMESTAMP: the visibility of the row in place is kept
UpsertKeepVisibility(table, row) ==
    {r \in table : r.user_id # row.user_id} \cup
    {[row EXCEPT !.visibility = r.visibility] :
        r \in {x \in table : x.user_id = row.user_id}} \cup
    (IF \E r \in table : r.user_id = row.user_id THEN {} ELSE {row})

\* INSERT ... ON CONFLICT (user_id) DO UPDATE SET encrypted_data, visibility,
\* timestamp: one statement, which replaces the row of the same user_id
Upsert(table, row) ==
    {r \in table : r.user_id # row.user_id} \cup {row}

\* as SelectSelf, without the condition on timestamp
SelectSelfAnyAge(user_id, window) ==
    {[encrypted_data |-> r.encrypted_data] :
        r \in {x \in user_locations : x.user_id = user_id}}

\* as SelectSelf, with the condition visibility != 'private' of the
\* candidate statements
SelectSelfNotPrivate(user_id, window) ==
    {[encrypted_data |-> r.encrypted_data] :
        r \in {x \in user_locations : /\ x.user_id = user_id
                                      /\ x.visibility # "private"
                                      /\ x.timestamp > now - window}}

\* SELECT encrypted_data FROM user_locations
\*   WHERE user_id = $1 AND timestamp > NOW() - INTERVAL window
SelectSelf(user_id, window) ==
    {[encrypted_data |-> r.encrypted_data] :
        r \in {x \in user_locations : /\ x.user_id = user_id
                                      /\ x.timestamp > now - window}}

\* the columns user_id, encrypted_data, visibility of a row
Columns(r) ==
    [user_id |-> r.user_id, encrypted_data |-> r.encrypted_data,
     visibility |-> r.visibility]

\* as SelectOthers, without the condition on visibility
SelectOthersAnyVisibility(user_id, window) ==
    {Columns(r) :
        r \in {x \in user_locations : /\ x.user_id # user_id
                                      /\ x.timestamp > now - window}}

\* as SelectOthers, with visibility = 'public'
SelectOthersPublicOnly(user_id, window) ==
    {Columns(r) :
        r \in {x \in user_locations : /\ x.user_id # user_id
                                      /\ x.visibility = "public"
                                      /\ x.timestamp > now - window}}

\* as SelectOthers, without the condition user_id != $1
SelectOthersIncludingSelf(user_id, window) ==
    {Columns(r) :
        r \in {x \in user_locations : /\ x.visibility # "private"
                                      /\ x.timestamp > now - window}}

\* SELECT user_id, encrypted_data, visibility FROM user_locations
\*   WHERE user_id != $1 AND visibility != 'private'
\*   AND timestamp > NOW() - INTERVAL window
SelectOthers(user_id, window) ==
    {Columns(r) :
        r \in {x \in user_locations : /\ x.user_id # user_id
                                      /\ x.visibility # "private"
                                      /\ x.timestamp > now - window}}

\* SELECT user_id, encrypted_data, visibility FROM user_locations
\*   WHERE visibility != 'private' AND timestamp > NOW() - INTERVAL window
SelectVisible(window) ==
    {Columns(r) :
        r \in {x \in user_locations : /\ x.visibility # "private"
                                      /\ x.timestamp > now - window}}

\* a SELECT without ORDER BY returns its rows in any order
Orderings(S) ==
    {s \in [1..Cardinality(S) -> S] :
        \A i, j \in 1..Cardinality(S) : i # j => s[i] # s[j]}

\* INTERVAL '48 hours' and INTERVAL '7 days', in hours
PrimaryWindow == 48
SecondaryWindow == 7 * 24

-----------------------------------------------------------------------------
(* The body of the two queries after the rows are fetched *)

\* Python truthiness of req.max_distance_km: None and 0.0 are false
Truthy(max_distance_km) == max_distance_km # <<>> /\ max_distance_km[1] # 0

Entry(loc, distance) ==
    [user_id |-> loc.user_id, distance_km |-> round2(distance),
     visibility |-> loc.visibility]

\* /nearby, the loop over other_locations from rows[i] on: a decrypt_location
\* that raises ends the loop and the request
RECURSIVE NearbyLoop(_, _, _, _)
NearbyLoop(user_point, rows, max_distance_km, i) ==
    IF i > Len(rows) THEN [raised |-> FALSE, list |-> <<>>]
    ELSE
      LET loc == rows[i]
          dec == decrypt_location(loc.encrypted_data)
      IN  IF ~dec.ok THEN [raised |-> TRUE, list |-> <<>>]
          ELSE
            LET distance == geodesic(user_point, <<dec.lat, dec.lon>>)
                rest == NearbyLoop(user_point, rows, max_distance_km, i + 1)
            IN  IF Truthy(max_distance_km) /\ distance > max_distance_km[1]
                THEN rest
                ELSE [raised |-> rest.raised,
                      list |-> <<Entry(loc, distance)>> \o rest.list]

\* /nearby_by_coordinates, the loop over other_locations from rows[i] on: the
\* try/except skips a row whose decrypt_location raises
RECURSIVE CoordsLoop(_, _, _, _)
CoordsLoop(reference_point, rows, max_distance_km, i) ==
    IF i > Len(rows) THEN <<>>
    ELSE
      LET loc == rows[i]
          dec == decrypt_location(loc.encrypted_data)
          rest == CoordsLoop(reference_point, rows, max_distance_km, i + 1)
      IN  IF ~dec.ok THEN rest
          ELSE
            LET distance == geodesic(reference_point, <<dec.lat, dec.lon>>)
            IN  IF Truthy(max_distance_km) /\ distance > max_distance_km[1]
                THEN rest
                ELSE <<Entry(loc, distance)>> \o rest

\* as InsertSorted, with e put before the entries of the same distance_km
RECURSIVE InsertSortedUnstable(_, _)
InsertSortedUnstable(sorted, e) ==
    IF sorted = <<>> THEN <<e>>
    ELSE IF Head(sorted).distance_km < e.distance_km
         THEN <<Head(sorted)>> \o InsertSortedUnstable(Tail(sorted), e)
         ELSE <<e>> \o sorted

\* list.sort(key=distance_km): stable, ascending
RECURSIVE InsertSorted(_, _)
InsertSorted(sorted, e) ==
    IF sorted = <<>> THEN <<e>>
    ELSE IF Head(sorted).distance_km <= e.distance_km
         THEN <<Head(sorted)>> \o InsertSorted(Tail(sorted), e)
         ELSE <<e>> \o sorted

RECURSIVE SortByDistance(_)
SortByDistance(list) ==
    IF list = <<>> THEN <<>>
    ELSE InsertSorted(SortByDistance(SubSeq(list, 1, Len(list) - 1)),
                      list[Len(list)])

\* nearest_users[:limit]
Slice(list, limit) ==
    SubSeq(list, 1, IF limit < Len(list) THEN limit ELSE Len(list))

HTTPException(status_code) == [status |-> status_code]

NoResponse == [status |-> 0]

\* as NearbyResult, with the origin as the reference point when the
\* requester's blob does not decrypt
NearbyResultSelfUnchecked(request, self_row, window, rows) ==
    LET self == decrypt_location(self_row.encrypted_data)
        loop == NearbyLoop(<<self.lat, self.lon>>, rows,
                           request.max_distance_km, 1)
        nearest_users == SortByDistance(loop.list)
    IN  IF loop.raised THEN HTTPException(500)
        ELSE [status |-> 200,
              user_id |-> request.user_id,
              nearest_users |-> Slice(nearest_users, request.limit),
              total_found |-> Len(nearest_users),
              time_window |-> window]

\* /nearby, lines 136-165
NearbyResult(request, self_row, window, rows) ==
    LET self == decrypt_location(self_row.encrypted_data)
    IN  IF ~self.ok THEN HTTPException(500)
        ELSE
          LET loop == NearbyLoop(<<self.lat, self.lon>>, rows,
                                 request.max_distance_km, 1)
              nearest_users == SortByDistance(loop.list)
          IN  IF loop.raised THEN HTTPException(500)
              ELSE [status |-> 200,
                    user_id |-> request.user_id,
                    nearest_users |-> Slice(nearest_users, request.limit),
                    total_found |-> Len(nearest_users),
                    time_window |-> window]

\* /nearby_by_coordinates, lines 59-88
CoordsResult(request, rows) ==
    LET reference_point == <<request.latitude, request.longitude>>
        nearest_users ==
            SortByDistance(CoordsLoop(reference_point, rows,
                                      request.max_distance_km, 1))
    IN  [status |-> 200,
         user_id |-> "None",
         nearest_users |-> Slice(nearest_users, request.limit),
         total_found |-> Len(nearest_users)]

-----------------------------------------------------------------------------
(* State after construction *)

NoRequest ==
    [kind |-> "none", user_id |-> "None", latitude |-> 0, longitude |-> 0,
     limit |-> 0, max_distance_km |-> <<>>]

NearbyRequest(user_id, limit, max_distance_km) ==
    [kind |-> "nearby", user_id |-> user_id, latitude |-> 0, longitude |-> 0,
     limit |-> limit, max_distance_km |-> max_distance_km]

CoordsRequest(latitude, longitude, limit, max_distance_km) ==
    [kind |-> "coords", user_id |-> "None", latitude |-> latitude,
     longitude |-> longitude, limit |-> limit,
     max_distance_km |-> max_distance_km]

\* no POST /update_location body has been received
NoCall == [status |-> 0]

\* the locals of a request that is not running
IdleLocals ==
    /\ pc' = "idle"
    /\ req' = NoRequest
    /\ user_location' = <<>>
    /\ time_window' = "none"
    /\ other_locations' = <<>>
    /\ response' = NoResponse

Init ==
    /\ \E secret \in Secrets : AES_KEY = derive_encryption_key(secret)
    /\ user_locations = {}
    /\ now = 0
    /\ pending = {}
    /\ updates = 0
    /\ last_call = NoCall
    /\ friendship_requests = {}
    /\ friendships = {}
    /\ store_errors = 0
    /\ pc = "idle"
    /\ req = NoRequest
    /\ user_location = <<>>
    /\ time_window = "none"
    /\ other_locations = <<>>
    /\ response = NoResponse

-----------------------------------------------------------------------------
(* Environment: the clock, and a restart of the process *)

\* a response is sent before the next event of the environment is looked at
Tick(hours) ==
    /\ pc # "done"
    /\ now + hours <= MaxTicks * TickHours
    /\ now' = now + hours
    /\ UNCHANGED <<AES_KEY, user_locations, pending, updates, last_call>>
    /\ UNCHANGED <<friendVars, store_errors>>
    /\ UNCHANGED queryVars

\* the process ends and is started again: encryption.py derives AES_KEY from
\* the secret of the new environment; the requests in flight are lost, the
\* table stays
Restart(secret) ==
    /\ pc # "done"
    /\ AES_KEY' = derive_encryption_key(secret)
    /\ AES_KEY' # AES_KEY
    /\ pending' = {}
    /\ IdleLocals
    /\ UNCHANGED <<user_locations, now, updates, last_call, friendVars>>
    /\ UNCHANGED store_errors

-----------------------------------------------------------------------------
(* POST /update_location *)

\* lines 29-34: the INSERT ... ON CONFLICT statement of one call
UpsertStatement(user_id, encrypted_data, visibility) ==
    user_locations' =
        Upsert(user_locations, Row(user_id, encrypted_data, visibility, now))

\* the whole handler: encrypt, then the one statement
update_location(user_id, latitude, longitude, visibility, iv) ==
    LET encrypted_data == encrypt_location(latitude, longitude, iv)
    IN  /\ Serving
        /\ pc # "done"
        /\ updates < MaxUpdates
        /\ updates' = updates + 1
        /\ UpsertStatement(user_id, encrypted_data, visibility)
        /\ UNCHANGED <<AES_KEY, now, pending, last_call, friendVars>>
        /\ UNCHANGED store_errors
        /\ UNCHANGED queryVars

\* the handler in its two steps, for calls that overlap.  Line 27: the call
\* has encrypted its coordinates and has not yet reached the store
update_location_encrypt(user_id, latitude, longitude, visibility, iv) ==
    LET encrypted_data == encrypt_location(latitude, longitude, iv)
    IN  /\ Serving
        /\ updates < MaxUpdates
        /\ Cardinality(pending) < MaxPending
        /\ updates' = updates + 1
        /\ pending' = pending \cup
               {[user_id |-> user_id, encrypted_data |-> encrypted_data,
                 visibility |-> visibility]}
        /\ UNCHANGED <<AES_KEY, user_locations, now, last_call, friendVars>>
        /\ UNCHANGED store_errors
        /\ UNCHANGED queryVars

\* lines 29-40: the statement of a call in flight is executed
update_location_execute(call) ==
    /\ call \in pending
    /\ UpsertStatement(call.user_id, call.encrypted_data, call.visibility)
    /\ pending' = pending \ {call}
    /\ UNCHANGED <<AES_KEY, now, updates, last_call, friendVars>>
    /\ UNCHANGED store_errors
    /\ UNCHANGED queryVars

-----------------------------------------------------------------------------
(* POST /nearby_by_coordinates *)

\* lines 50-51: the limit check, before the first statement
coords_begin(latitude, longitude, limit, max_distance_km) ==
    /\ Serving
    /\ pc = "idle"
    /\ req' = CoordsRequest(latitude, longitude, limit, max_distance_km)
    /\ IF limit < 1 \/ limit > 100
       THEN /\ response' = HTTPException(400)
            /\ pc' = "done"
       ELSE /\ response' = NoResponse
            /\ pc' = "coords48"
    /\ UNCHANGED <<user_location, time_window, other_locations>>
    /\ UNCHANGED storeVars

\* lines 53-88: the one SELECT, then the loop, the sort and the response
coords_fetch ==
    /\ pc = "coords48"
    /\ \E rows \in Orderings(SelectVisible(PrimaryWindow)) :
         /\ other_locations' = rows
         /\ response' = CoordsResult(req, rows)
    /\ pc' = "done"
    /\ UNCHANGED <<req, user_location, time_window>>
    /\ UNCHANGED storeVars

-----------------------------------------------------------------------------
(* POST /nearby *)

\* as nearby_begin, without lines 98-99: any limit goes on to the lookups
nearby_begin_NoLimitCheck(user_id, limit, max_distance_km) ==
    /\ Serving
    /\ pc = "idle"
    /\ req' = NearbyRequest(user_id, limit, max_distance_km)
    /\ response' = NoResponse
    /\ pc' = "self48"
    /\ UNCHANGED <<user_location, time_window, other_locations>>
    /\ UNCHANGED storeVars

\* lines 98-99: the limit check, before the first statement
nearby_begin(user_id, limit, max_distance_km) ==
    /\ Serving
    /\ pc = "idle"
    /\ req' = NearbyRequest(user_id, limit, max_distance_km)
    /\ IF limit < 1 \/ limit > 100
       THEN /\ response' = HTTPException(400)
            /\ pc' = "done"
       ELSE /\ response' = NoResponse
            /\ pc' = "self48"
    /\ UNCHANGED <<user_location, time_window, other_locations>>
    /\ UNCHANGED storeVars

\* lines 102-110: the requester's row under 48 hours
nearby_self48 ==
    /\ pc = "self48"
    /\ LET found == SelectSelf(req.user_id, PrimaryWindow)
       IN  IF found = {}
           THEN /\ user_location' = <<>>
                /\ pc' = "self7d"
           ELSE /\ \E r \in found : user_location' = <<r>>
                /\ pc' = "others48"
    /\ time_window' = "48 hours"
    /\ UNCHANGED <<req, other_locations, response>>
    /\ UNCHANGED storeVars

\* as nearby_self7d, without line 118: time_window keeps "48 hours"
nearby_self7d_KeepWindow ==
    /\ pc = "self7d"
    /\ LET found == SelectSelf(req.user_id, SecondaryWindow)
       IN  IF found = {}
           THEN /\ user_location' = <<>>
                /\ response' = HTTPException(404)
                /\ pc' = "done"
           ELSE /\ \E r \in found : user_location' = <<r>>
                /\ pc' = "others48"
                /\ UNCHANGED response
    /\ UNCHANGED <<req, other_locations, time_window>>
    /\ UNCHANGED storeVars

\* as nearby_self7d, with the requester's rows older than 7 days deleted
\* before the 404
nearby_self7d_Purge ==
    /\ pc = "self7d"
    /\ LET found == SelectSelf(req.user_id, SecondaryWindow)
       IN  IF found = {}
           THEN /\ user_location' = <<>>
                /\ response' = HTTPException(404)
                /\ pc' = "done"
                /\ user_locations' =
                       {r \in user_locations : r.user_id # req.user_id}
                /\ UNCHANGED time_window
           ELSE /\ \E r \in found : user_location' = <<r>>
                /\ time_window' = "7 days"
                /\ pc' = "others48"
                /\ UNCHANGED <<response, user_locations>>
    /\ UNCHANGED <<req, other_locations>>
    /\ UNCHANGED <<AES_KEY, now, pending, updates, last_call, friendVars,
                   store_errors>>

\* lines 111-118: the requester's row under 7 days, or 404
nearby_self7d ==
    /\ pc = "self7d"
    /\ LET found == SelectSelf(req.user_id, SecondaryWindow)
       IN  IF found = {}
           THEN /\ user_location' = <<>>
                /\ response' = HTTPException(404)
                /\ pc' = "done"
                /\ UNCHANGED time_window
           ELSE /\ \E r \in found : user_location' = <<r>>
                /\ time_window' = "7 days"
                /\ pc' = "others48"
                /\ UNCHANGED response
    /\ UNCHANGED <<req, other_locations>>
    /\ UNCHANGED storeVars

\* as nearby_others48, with the candidates fetched under the window that
\* resolved the requester's row (joint fallback)
nearby_others48_Joint ==
    /\ pc = "others48"
    /\ \E rows \in Orderings(SelectOthers(req.user_id,
                     IF time_window = "7 days" THEN SecondaryWindow
                     ELSE PrimaryWindow)) :
         /\ other_locations' = rows
         /\ IF rows = <<>>
            THEN /\ pc' = "others7d"
                 /\ UNCHANGED response
            ELSE /\ response' =
                       NearbyResult(req, user_location[1], time_window, rows)
                 /\ pc' = "done"
    /\ UNCHANGED <<req, user_location, time_window>>
    /\ UNCHANGED storeVars

\* as nearby_others48, with the 7-day statement also when the distance
\* filter has left no candidate of the 48-hour rows
nearby_others48_WidenAfterFilter ==
    /\ pc = "others48"
    /\ \E rows \in Orderings(SelectOthers(req.user_id, PrimaryWindow)) :
         LET result == NearbyResult(req, user_location[1], time_window, rows)
         IN  /\ other_locations' = rows
             /\ IF \/ rows = <<>>
                   \/ (result.status = 200 /\ result.nearest_users = <<>>)
                THEN /\ pc' = "others7d"
                     /\ UNCHANGED response
                ELSE /\ response' = result
                     /\ pc' = "done"
    /\ UNCHANGED <<req, user_location, time_window>>
    /\ UNCHANGED storeVars

\* lines 120-128, and lines 136-165 when the rows are not empty
nearby_others48 ==
    /\ pc = "others48"
    /\ \E rows \in Orderings(SelectOthers(req.user_id, PrimaryWindow)) :
         /\ other_locations' = rows
         /\ IF rows = <<>>
            THEN /\ pc' = "others7d"
                 /\ UNCHANGED response
            ELSE /\ response' =
                       NearbyResult(req, user_location[1], time_window, rows)
                 /\ pc' = "done"
    /\ UNCHANGED <<req, user_location, time_window>>
    /\ UNCHANGED storeVars

\* lines 129-165
nearby_others7d ==
    /\ pc = "others7d"
    /\ \E rows \in Orderings(SelectOthers(req.user_id, SecondaryWindow)) :
         /\ other_locations' = rows
         /\ response' =
                NearbyResult(req, user_location[1], time_window, rows)
    /\ pc' = "done"
    /\ UNCHANGED <<req, user_location, time_window>>
    /\ UNCHANGED storeVars

\* the response leaves the process
deliver ==
    /\ pc = "done"
    /\ IdleLocals
    /\ UNCHANGED storeVars

-----------------------------------------------------------------------------
(* Specifications *)

DoTick == Tick(TickHours)

DoRestart == \E secret \in Secrets : Restart(secret)

DoUpdate ==
    \E user_id \in Users, latitude \in Latitudes, longitude \in Longitudes,
       visibility \in VisibilityState, iv \in IVs :
        update_location(user_id, latitude, longitude, visibility, iv)

DoUpdateEncrypt ==
    \E user_id \in Users, latitude \in Latitudes, longitude \in Longitudes,
       visibility \in VisibilityState, iv \in IVs :
        update_location_encrypt(user_id, latitude, longitude, visibility, iv)

DoUpdateExecute == \E call \in pending : update_location_execute(call)

DoCoordsBegin ==
    \E latitude \in Latitudes, longitude \in Longitudes, limit \in Limits,
       max_distance_km \in MaxDistances :
        coords_begin(latitude, longitude, limit, max_distance_km)

DoNearbyBegin ==
    \E user_id \in Users, limit \in Limits, max_distance_km \in MaxDistances :
        nearby_begin(user_id, limit, max_distance_km)

\* the queries, run while update_location calls, the clock and restarts go on
Next ==
    \/ DoTick
    \/ DoRestart
    \/ DoUpdate
    \/ DoCoordsBegin
    \/ coords_fetch
    \/ DoNearbyBegin
    \/ nearby_self48
    \/ nearby_self7d
    \/ nearby_others48
    \/ nearby_others7d
    \/ deliver

Spec == Init /\ [][Next]_vars

\* overlapping update_location calls, each in its two steps
NextUpdates ==
    \/ DoTick
    \/ DoRestart
    \/ DoUpdateEncrypt
    \/ DoUpdateExecute

SpecUpdates == Init /\ [][NextUpdates]_vars

-----------------------------------------------------------------------------
(* tracker.py: Fernet tokens and the body of /api/find_nearest *)

\* lines 44-45: the Fernet key is the ENCRYPTION_KEY secret of the process
fernet == [fernet_key |-> AES_KEY.secret]

\* lines 47-49: f"{latitude},{longitude}" under Fernet, then base64
tracker_encrypt_location(latitude, longitude, iv) ==
    b64encode([fernet |-> fernet, iv |-> iv,
               data |-> <<latitude, longitude>>])

\* lines 51-57
tracker_decrypt_location(encrypted_data) ==
    IF encrypted_data[1] # "b64" THEN DecryptionFailed
    ELSE
      LET token == b64decode(encrypted_data)
      IN  IF "fernet" \notin DOMAIN token THEN DecryptionFailed
          ELSE IF token.fernet # fernet THEN DecryptionFailed
          ELSE [ok |-> TRUE, lat |-> token.data[1], lon |-> token.data[2]]

\* lines 131-142: the loop over other_locations from rows[i] on
RECURSIVE TrackerLoop(_, _, _, _)
TrackerLoop(user_point, rows, max_distance_km, i) ==
    IF i > Len(rows) THEN [raised |-> FALSE, list |-> <<>>]
    ELSE
      LET loc == rows[i]
          dec == tracker_decrypt_location(loc.encrypted_data)
      IN  IF ~dec.ok THEN [raised |-> TRUE, list |-> <<>>]
          ELSE
            LET distance == geodesic(user_point, <<dec.lat, dec.lon>>)
                rest == TrackerLoop(user_point, rows, max_distance_km, i + 1)
            IN  IF Truthy(max_distance_km) /\ distance > max_distance_km[1]
                THEN rest
                ELSE [raised |-> rest.raised,
                      list |-> <<Entry(loc, distance)>> \o rest.list]

\* lines 126-152: nearest_users is cut to the limit before it is counted
TrackerResult(request, self_row, rows) ==
    LET self == tracker_decrypt_location(self_row.encrypted_data)
    IN  IF ~self.ok THEN HTTPException(500)
        ELSE
          LET loop == TrackerLoop(<<self.lat, self.lon>>, rows,
                                  request.max_distance_km, 1)
              nearest_users ==
                  Slice(SortByDistance(loop.list), request.limit)
          IN  IF loop.raised THEN HTTPException(500)
              ELSE [status |-> 200,
                    user_id |-> request.user_id,
                    nearest_users |-> nearest_users,
                    total_found |-> Len(nearest_users)]

TrackerRequest(user_id, limit, max_distance_km) ==
    [kind |-> "tracker", user_id |-> user_id, latitude |-> 0,
     longitude |-> 0, limit |-> limit, max_distance_km |-> max_distance_km]

-----------------------------------------------------------------------------
(* The body of the three queries on rows that were fetched: the loop, the  *)
(* sort, the cut to the limit and the count, on every list of up to        *)
(* MaxCandidates rows                                                      *)

\* at most this many candidate rows are fetched
MaxCandidates == 3

CandidateIds == <<"u1", "u2", "u3", "u4", "u5">>

\* longitudes of the candidates: at 0 km, 0.1001 km and 0.1035 km of the
\* reference point, the last two with the same round(distance, 2)
RankLongitudes == {0, 90, 93}

RankLimits == {1, 2, 100}

\* None, 0.0 and 0.1001 km
RankMaxDistances == {<<>>, <<0>>, <<1001>>}

RankKinds == {"nearby", "coords", "tracker"}

InitRanking ==
    /\ \E secret \in Secrets : AES_KEY = derive_encryption_key(secret)
    /\ now = 0
    /\ pending = {}
    /\ updates = 0
    /\ last_call = NoCall
    /\ friendship_requests = {}
    /\ friendships = {}
    /\ store_errors = 0
    /\ pc = "fetched"
    /\ response = NoResponse
    /\ \E kind \in RankKinds, n \in 0..MaxCandidates,
          limit \in RankLimits, max_distance_km \in RankMaxDistances :
         \E lons \in [1..n -> RankLongitudes] :
           LET blob(longitude) ==
                   IF kind = "tracker"
                   THEN tracker_encrypt_location(0, longitude, 1)
                   ELSE encrypt_location(0, longitude, 1)
               rows == [i \in 1..n |->
                          Row(CandidateIds[i], blob(lons[i]), "public", 0)]
               self == Row("u0", blob(0), "public", 0)
           IN  /\ req = IF kind = "nearby"
                        THEN NearbyRequest("u0", limit, max_distance_km)
                        ELSE IF kind = "tracker"
                        THEN TrackerRequest("u0", limit, max_distance_km)
                        ELSE CoordsRequest(0, 0, limit, max_distance_km)
               /\ user_locations =
                      {rows[i] : i \in 1..n} \cup
                      (IF kind = "coords" THEN {} ELSE {self})
               /\ other_locations = [i \in 1..n |-> Columns(rows[i])]
               /\ user_location =
                      IF kind = "coords" THEN <<>>
                      ELSE <<[encrypted_data |-> self.encrypted_data]>>
               /\ time_window =
                      IF kind = "nearby" THEN "48 hours" ELSE "none"

\* routers/location_router.py, lines 136-165
nearby_compute ==
    /\ pc = "fetched"
    /\ req.kind = "nearby"
    /\ response' =
           NearbyResult(req, user_location[1], time_window, other_locations)
    /\ pc' = "done"
    /\ UNCHANGED <<req, user_location, time_window, other_locations>>
    /\ UNCHANGED storeVars

\* routers/location_router.py, lines 59-88
coords_compute ==
    /\ pc = "fetched"
    /\ req.kind = "coords"
    /\ response' = CoordsResult(req, other_locations)
    /\ pc' = "done"
    /\ UNCHANGED <<req, user_location, time_window, other_locations>>
    /\ UNCHANGED storeVars

\* tracker.py, lines 126-152
tracker_compute ==
    /\ pc = "fetched"
    /\ req.kind = "tracker"
    /\ response' = TrackerResult(req, user_location[1], other_locations)
    /\ pc' = "done"
    /\ UNCHANGED <<req, user_location, time_window, other_locations>>
    /\ UNCHANGED storeVars

NextRanking ==
    \/ nearby_compute
    \/ coords_compute
    \/ tracker_compute

SpecRanking == InitRanking /\ [][NextRanking]_vars

-----------------------------------------------------------------------------
(* POST /update_location from the request body on: the UserLocation model  *)
(* of the body, then the handler                                           *)

\* latitudes and longitudes of a body: inside and outside [-90, 90] and
\* [-180, 180]; -4512345 is -45.12345 degrees
BodyLatitudes == {-4512345, 0, 91 * Degree}
BodyLongitudes == {0, 181 * Degree}

\* the visibility of a body: left out (<<>>), or a string
BodyVisibilities == {<<>>} \cup {<<v>> : v \in VisibilityState \cup {"friends"}}

Bodies ==
    [user_id : Users, latitude : BodyLatitudes, longitude : BodyLongitudes,
     visibility : BodyVisibilities]

\* as UserLocation, with visibility: str
UserLocationAnyVisibility(body) ==
    [ok |-> TRUE,
     user_id |-> body.user_id,
     latitude |-> body.latitude,
     longitude |-> body.longitude,
     visibility |-> IF body.visibility = <<>> THEN "public"
                    ELSE body.visibility[1]]

\* as UserLocation, with visibility: VisibilityState = VisibilityState.PRIVATE
UserLocationDefaultPrivate(body) ==
    [ok |-> body.visibility = <<>> \/ body.visibility[1] \in VisibilityState,
     user_id |-> body.user_id,
     latitude |-> body.latitude,
     longitude |-> body.longitude,
     visibility |-> IF body.visibility = <<>> THEN "private"
                    ELSE body.visibility[1]]

\* models/location_models.py, UserLocation: latitude and longitude are any
\* float, visibility is a member of VisibilityState and PUBLIC when left out
UserLocation(body) ==
    [ok |-> body.visibility = <<>> \/ body.visibility[1] \in VisibilityState,
     user_id |-> body.user_id,
     latitude |-> body.latitude,
     longitude |-> body.longitude,
     visibility |-> IF body.visibility = <<>> THEN "public"
                    ELSE body.visibility[1]]

\* app.py, CONSTRAINT valid_visibility CHECK (visibility IN (...))
valid_visibility(visibility) ==
    visibility \in {"public", "hidden", "private"}

Call(body, status_code) ==
    [body |-> body, status |-> status_code, before |-> user_locations]

\* the body is validated (422 when it is not a UserLocation), then the
\* handler runs: lines 27-40
post_update_location(body, iv) ==
    LET location == UserLocation(body)
        encrypted_data ==
            encrypt_location(location.latitude, location.longitude, iv)
    IN  /\ Serving
        /\ pc # "done"
        /\ updates < MaxUpdates
        /\ updates' = updates + 1
        /\ IF ~location.ok
           THEN /\ last_call' = Call(body, 422)
                /\ UNCHANGED user_locations
           ELSE IF ~valid_visibility(location.visibility)
           THEN /\ last_call' = Call(body, 500)
                /\ UNCHANGED user_locations
           ELSE /\ last_call' = Call(body, 200)
                /\ UpsertStatement(location.user_id, encrypted_data,
                                   location.visibility)
        /\ UNCHANGED <<AES_KEY, now, pending, friendVars>>
        /\ UNCHANGED store_errors
        /\ UNCHANGED queryVars

DoPostUpdate ==
    \E body \in Bodies, iv \in IVs : post_update_location(body, iv)

NextBoundary ==
    \/ DoPostUpdate
    \/ DoRestart

SpecBoundary == Init /\ [][NextBoundary]_vars

-----------------------------------------------------------------------------
(* Properties of the store under overlapping update_location calls *)

RowsOf(table, user_id) == {r \in table : r.user_id = user_id}

\* the calls whose statement is executed in a step
Committed == IF AES_KEY' = AES_KEY THEN pending \ pending' ELSE {}

\* C3: after any sequence of update_location calls, overlapping or not, the
\* table holds at most one row per user_id; a user who has a row keeps one;
\* and the statement of a call leaves, as the one row of its user, the blob
\* and the visibility of that call stamped with the time of the statement,
\* and leaves the rows of the other users alone.  Nothing else changes the
\* table.
C3_OneRowLatestWins ==
    [][ /\ \A u \in Users : Cardinality(RowsOf(user_locations', u)) <= 1
        /\ \A r \in user_locations : RowsOf(user_locations', r.user_id) # {}
        /\ \A call \in Committed :
             /\ RowsOf(user_locations', call.user_id) =
                    {Row(call.user_id, call.encrypted_data, call.visibility,
                         now)}
             /\ \A u \in Users \ {call.user_id} :
                    RowsOf(user_locations', u) = RowsOf(user_locations, u)
        /\ Committed = {} => user_locations' = user_locations
      ]_vars

\* two calls were made, both statements are executed, and one row is left:
\* the second call has overwritten the row of the first
C3_Witness ==
    /\ updates = 2
    /\ pending = {}
    /\ Cardinality(user_locations) = 1

\* C4: when update_location calls for the same user overlap, every row that
\* appears in the table has its blob and its visibility from one and the
\* same call in flight, and the timestamp of that call's statement: a row is
\* never put together from two calls, or from a call and the row in place.
C4_NoMixedRow ==
    [][ \A r \in user_locations' \ user_locations :
          \E call \in pending :
            /\ call \notin pending'
            /\ r = Row(call.user_id, call.encrypted_data, call.visibility,
                       now)
      ]_vars

\* the row of a user is the row of one call while a second call for the same
\* user, with another blob and another visibility, is still in flight
C4_Witness ==
    \E r \in user_locations, call \in pending :
        /\ call.user_id = r.user_id
        /\ call.visibility # r.visibility
        /\ call.encrypted_data # r.encrypted_data
        /\ updates = 2

-----------------------------------------------------------------------------
(* Properties of the two queries.  In a state with pc = "done" the table   *)
(* and the clock are those that the last statement of the request has      *)
(* read: the response is built in the step of that statement, and nothing  *)
(* else happens before it is delivered.                                    *)

Succeeded == pc = "done" /\ response.status = 200

\* the step in which a request ends
Ends == pc # "done" /\ pc' = "done"

Entries(resp) == {resp.nearest_users[i] : i \in 1..Len(resp.nearest_users)}

\* C1: whatever update_location calls are interleaved with the statements of
\* a query, every entry of a returned nearest_users carries visibility
\* 'public' or 'hidden', and no entry is for a user whose row was 'private'
\* when the candidate rows were fetched.
C1_NoPrivateReturned ==
    Succeeded =>
        \A e \in Entries(response) :
            /\ e.visibility \in {"public", "hidden"}
            /\ \A r \in user_locations :
                   r.user_id = e.user_id => r.visibility # "private"

\* a query has returned a candidate while the fresh row of another user, not
\* the requester, is private
C1_Witness ==
    /\ Succeeded
    /\ response.nearest_users # <<>>
    /\ \E r \in user_locations :
           /\ r.visibility = "private"
           /\ r.user_id # req.user_id
           /\ now - r.timestamp < PrimaryWindow

\* the reference point of the request that is ending
ReferencePoint ==
    IF req.kind = "coords" THEN <<req.latitude, req.longitude>>
    ELSE LET self == decrypt_location(user_location[1].encrypted_data)
         IN  <<self.lat, self.lon>>

\* the rows the claim C2 speaks of: of another user than the requester,
\* public or hidden, inside the window, at a distance that passes the filter
EligibleRows(window) ==
    {r \in user_locations :
        /\ req.kind = "nearby" => r.user_id # req.user_id
        /\ r.visibility \in {"public", "hidden"}
        /\ now - r.timestamp < window
        /\ LET dec == decrypt_location(r.encrypted_data)
           IN  /\ dec.ok
               /\ \/ req.max_distance_km = <<>>
                  \/ geodesic(ReferencePoint, <<dec.lat, dec.lon>>)
                         <= req.max_distance_km[1]}

SwapLabel(visibility) ==
    IF visibility = "public" THEN "hidden"
    ELSE IF visibility = "hidden" THEN "public" ELSE visibility

SwapLabels(list) ==
    [i \in 1..Len(list) |-> [list[i] EXCEPT !.visibility = SwapLabel(@)]]

\* C2: when a query succeeds, every public or hidden row of another user
\* that lies inside the window of the statement that fetched the candidates
\* (7 days for the second candidate statement of /nearby, 48 hours
\* otherwise) and passes the distance filter is counted in total_found, and
\* is in nearest_users with its own visibility when total_found <= limit;
\* and with public and hidden exchanged on the fetched rows the response is
\* the same but for the labels.
C2_PublicAndHiddenIncluded ==
    [][ (Ends /\ response'.status = 200) =>
          LET window == IF pc = "others7d" THEN SecondaryWindow
                        ELSE PrimaryWindow
              swapped == SwapLabels(other_locations')
              again == IF req.kind = "coords"
                       THEN CoordsResult(req, swapped)
                       ELSE NearbyResult(req, user_location[1], time_window,
                                         swapped)
          IN  /\ response'.total_found >= Cardinality(EligibleRows(window))
              /\ response'.total_found <= req.limit =>
                   \A r \in EligibleRows(window) :
                     \E e \in Entries(response') :
                       e.user_id = r.user_id /\ e.visibility = r.visibility
              /\ again.status = 200
              /\ again.nearest_users = SwapLabels(response'.nearest_users)
              /\ again.total_found = response'.total_found
      ]_vars

\* a query with a distance filter has returned a hidden candidate
C2_Witness ==
    /\ Succeeded
    /\ req.max_distance_km # <<>>
    /\ \E e \in Entries(response) : e.visibility = "hidden"

-----------------------------------------------------------------------------
(* Properties of the recency windows of /nearby *)

\* a step in which the statement at pc is executed
StatementStep == pc' # pc /\ pc' # "idle"

Age(r) == now - r.timestamp

SelfRows == RowsOf(user_locations, req.user_id)

\* the rows of the other users that are not private
CandidateRows == {r \in user_locations :
                     r.user_id # req.user_id /\ r.visibility # "private"}

BlobOf(r) == [encrypted_data |-> r.encrypted_data]

C6_NotFoundWhenStale ==
    [][ /\ ( /\ pc = "self48" /\ StatementStep
             /\ \A r \in SelfRows : Age(r) > SecondaryWindow )
           => pc' = "self7d" /\ other_locations' = <<>>
        /\ ( /\ pc = "self7d" /\ StatementStep
             /\ \A r \in SelfRows : Age(r) > SecondaryWindow )
           => /\ pc' = "done"
              /\ response'.status = 404
              /\ DOMAIN response' = {"status"}
              /\ other_locations' = <<>>
        /\ response'.status = 404 =>
              other_locations' = <<>> /\ pc = "self7d"
      ]_vars

\* /nearby has ended with 404 for a requester whose only row is older than
\* 7 days
C6_Witness ==
    /\ pc = "done"
    /\ req.kind = "nearby"
    /\ response.status = 404
    /\ \E r \in SelfRows : Age(r) > SecondaryWindow

\* C7: in /nearby each lookup falls back on its own.  The requester's row is
\* looked up under 7 days exactly when the 48-hour lookup found no row; the
\* candidates are fetched under 7 days exactly when the 48-hour statement
\* returned no row, and otherwise are the rows of the 48-hour statement,
\* whatever time_window says; the candidate statements leave time_window
\* alone.
C7_IndependentFallback ==
    [][ /\ (pc = "self48" /\ StatementStep)
           => ( pc' = "self7d" <=>
                  ~ \E r \in SelfRows : r.timestamp > now - PrimaryWindow )
        /\ (pc = "self7d" /\ StatementStep /\ pc' # "done")
           => /\ time_window' = "7 days"
              /\ \E r \in SelfRows :
                    /\ r.timestamp > now - SecondaryWindow
                    /\ user_location' = <<BlobOf(r)>>
        /\ (pc = "others48" /\ StatementStep)
           => /\ pc' = "others7d" <=>
                    ~ \E r \in CandidateRows :
                          r.timestamp > now - PrimaryWindow
              /\ pc' = "done" =>
                    {other_locations'[i] : i \in 1..Len(other_locations')}
                    = {Columns(r) : r \in {x \in CandidateRows :
                            x.timestamp > now - PrimaryWindow}}
              /\ time_window' = time_window
        /\ (pc = "others7d" /\ StatementStep)
           => /\ {other_locations'[i] : i \in 1..Len(other_locations')}
                 = {Columns(r) : r \in {x \in CandidateRows :
                         x.timestamp > now - SecondaryWindow}}
              /\ time_window' = time_window
      ]_vars

\* the requester's row was found under 7 days and the candidates returned
\* are rows newer than 48 hours
C7_Witness ==
    /\ Succeeded
    /\ req.kind = "nearby"
    /\ time_window = "7 days"
    /\ response.nearest_users # <<>>
    /\ \A r \in CandidateRows : Age(r) < PrimaryWindow

\* the three other combinations of C7: both under 48 hours; the requester's
\* row under 48 hours and the candidates under 7 days; both under 7 days
C7_BothPrimary ==
    /\ Succeeded /\ req.kind = "nearby" /\ time_window = "48 hours"
    /\ response.nearest_users # <<>>
    /\ \A r \in CandidateRows : Age(r) < PrimaryWindow

C7_SelfPrimaryOthersSecondary ==
    /\ Succeeded /\ req.kind = "nearby" /\ time_window = "48 hours"
    /\ response.nearest_users # <<>>
    /\ \A r \in CandidateRows : Age(r) > PrimaryWindow

C7_BothSecondary ==
    /\ Succeeded /\ req.kind = "nearby" /\ time_window = "7 days"
    /\ response.nearest_users # <<>>
    /\ \A r \in CandidateRows : Age(r) > PrimaryWindow

-----------------------------------------------------------------------------
(* The window reported, the window of /nearby_by_coordinates, and rows     *)
(* that do not decrypt                                                     *)

\* C8: the window a /nearby response reports is the window used: a
\* response that returns a candidate whose row is older than 48 hours
\* reports "7 days", and "48 hours" is reported only when the requester's
\* row and every returned candidate were found under 48 hours.
C8_ReportedWindowIsWindowUsed ==
    (Succeeded /\ req.kind = "nearby") =>
        /\ ( \E e \in Entries(response), r \in user_locations :
                 r.user_id = e.user_id /\ Age(r) > PrimaryWindow )
           => response.time_window = "7 days"
        /\ response.time_window = "48 hours"
           => /\ time_window = "48 hours"
              /\ \A e \in Entries(response), r \in user_locations :
                     r.user_id = e.user_id => Age(r) < PrimaryWindow

\* C9: /nearby_by_coordinates takes its candidates from the 48-hour window,
\* and from the 7-day window when no row that is not private is newer than
\* 48 hours.
C9_CoordsFallsBackToSecondary ==
    (Succeeded /\ req.kind = "coords") =>
        LET visible == {r \in user_locations : r.visibility # "private"}
            primary == {r \in visible : Age(r) < PrimaryWindow}
            secondary == {r \in visible : Age(r) < SecondaryWindow}
        IN  {other_locations[i] : i \in 1..Len(other_locations)} =
              {Columns(r) :
                  r \in IF primary # {} THEN primary ELSE secondary}

\* the candidate rows of the request that do not decrypt
Undecryptable ==
    {i \in 1..Len(other_locations) :
        ~decrypt_location(other_locations[i].encrypted_data).ok}

Without(rows, i) == SubSeq(rows, 1, i - 1) \o SubSeq(rows, i + 1, Len(rows))

\* C10: in both queries, when exactly one of the fetched candidate rows does
\* not decrypt, the request succeeds with the response that the other rows
\* alone give.
C10_OneBadRowIsSkipped ==
    ( /\ pc = "done"
      /\ Cardinality(Undecryptable) = 1
      /\ req.kind = "nearby" =>
             decrypt_location(user_location[1].encrypted_data).ok )
    => LET i == CHOOSE j \in Undecryptable : TRUE
           rest == Without(other_locations, i)
       IN  /\ response.status = 200
           /\ response = IF req.kind = "coords"
                         THEN CoordsResult(req, rest)
                         ELSE NearbyResult(req, user_location[1],
                                           time_window, rest)

-----------------------------------------------------------------------------
(* Errors of /nearby and of the limit check *)

\* C11: in /nearby, when the requester's row was found under a window and
\* its blob does not decrypt, the request ends with 500 and the response
\* carries nothing but the status, whatever rows the candidate statements
\* have returned.
C11_SelfDecryptionFailureIsFatal ==
    ( /\ pc = "done"
      /\ req.kind = "nearby"
      /\ user_location # <<>>
      /\ ~decrypt_location(user_location[1].encrypted_data).ok )
    => /\ response = HTTPException(500)
       /\ DOMAIN response = {"status"}

\* /nearby has ended for a requester whose blob does not decrypt while a
\* candidate row that does decrypt was fetched
C11_Witness ==
    /\ pc = "done"
    /\ req.kind = "nearby"
    /\ user_location # <<>>
    /\ ~decrypt_location(user_location[1].encrypted_data).ok
    /\ \E i \in 1..Len(other_locations) :
           decrypt_location(other_locations[i].encrypted_data).ok

\* the step in which a request is received
Begins == pc = "idle" /\ pc' # "idle"

\* C12: a /nearby or /nearby_by_coordinates request with a limit below 1 or
\* above 100 ends in its first step with 400 and nothing but the status: no
\* statement has run (no row was fetched, the table is as it was), whatever
\* the table holds; a request with a limit in 1..100 goes on to its first
\* statement with the limit as sent; and 400 is the answer to nothing else.
C12_LimitRejectedBeforeStore ==
    [][ /\ (Begins /\ (req'.limit < 1 \/ req'.limit > 100))
           => /\ pc' = "done"
              /\ response' = HTTPException(400)
              /\ DOMAIN response' = {"status"}
              /\ user_location' = <<>>
              /\ other_locations' = <<>>
              /\ user_locations' = user_locations
        /\ (Begins /\ req'.limit >= 1 /\ req'.limit <= 100)
           => /\ pc' \in {"self48", "coords48"}
              /\ response' = NoResponse
        /\ (Ends /\ response'.status = 400)
           => Begins /\ (req'.limit < 1 \/ req'.limit > 100)
        /\ (Ends /\ response'.status = 200)
           => /\ req.limit >= 1 /\ req.limit <= 100
              /\ Len(response'.nearest_users) <= req.limit
      ]_vars

\* /nearby was asked with limit 101 for a user who has no row, while the
\* table holds the row of another user, and has ended with 400
C12_Witness ==
    /\ pc = "done"
    /\ response.status = 400
    /\ req.kind = "nearby"
    /\ req.limit = 101
    /\ SelfRows = {}
    /\ user_locations # {}

-----------------------------------------------------------------------------
(* Properties of the list returned: length, order, count, distance filter *)

\* the request in flight, with the cipher and the body of its variant
RankResult(request) ==
    IF request.kind = "nearby"
    THEN NearbyResult(request, user_location[1], time_window,
                      other_locations)
    ELSE IF request.kind = "tracker"
    THEN TrackerResult(request, user_location[1], other_locations)
    ELSE CoordsResult(request, other_locations)

RankDecrypt(encrypted_data) ==
    IF req.kind = "tracker" THEN tracker_decrypt_location(encrypted_data)
    ELSE decrypt_location(encrypted_data)

\* the distance, not rounded, of the i-th fetched row from the reference
\* point
RowDistance(i) ==
    LET dec == RankDecrypt(other_locations[i].encrypted_data)
        self == RankDecrypt(user_location[1].encrypted_data)
    IN  geodesic(IF req.kind = "coords"
                 THEN <<req.latitude, req.longitude>>
                 ELSE <<self.lat, self.lon>>,
                 <<dec.lat, dec.lon>>)

\* the fetched rows that pass the distance filter: all of them when no
\* max_distance_km is supplied, those not farther than it otherwise
Eligible ==
    {i \in 1..Len(other_locations) :
        \/ req.max_distance_km = <<>>
        \/ RowDistance(i) <= req.max_distance_km[1]}

\* the fetched rows that have an entry in a response
Included(resp) ==
    {i \in 1..Len(other_locations) :
        \E e \in Entries(resp) : e.user_id = other_locations[i].user_id}

FetchIndex(e) ==
    CHOOSE i \in 1..Len(other_locations) :
        other_locations[i].user_id = e.user_id

Min(a, b) == IF a < b THEN a ELSE b

RouterSucceeded == Succeeded /\ req.kind \in {"nearby", "coords"}

\* C13: with a valid limit L and E fetched rows that pass the distance
\* filter, nearest_users of /nearby and /nearby_by_coordinates has min(L, E)
\* entries, all of rows that pass the filter, and no row that passes the
\* filter and is left out is strictly nearer to the reference point than a
\* row that is in the list.
C13_NearestWithinLimit ==
    RouterSucceeded =>
        /\ Len(response.nearest_users) =
               Min(req.limit, Cardinality(Eligible))
        /\ Included(response) \subseteq Eligible
        /\ \A i \in Eligible \ Included(response), j \in Included(response) :
               RowDistance(i) >= RowDistance(j)

\* C14: nearest_users of /nearby and /nearby_by_coordinates does not
\* decrease in distance_km, and two entries of the same distance_km are in
\* the order in which their rows were fetched.
C14_SortedAndStable ==
    RouterSucceeded =>
        \A i, j \in 1..Len(response.nearest_users) :
            i < j =>
              LET a == response.nearest_users[i]
                  b == response.nearest_users[j]
              IN  /\ a.distance_km <= b.distance_km
                  /\ a.distance_km = b.distance_km
                     => FetchIndex(a) < FetchIndex(b)

\* a list of three entries: the first was fetched last, and the other two
\* have the same distance_km and rows at different distances
C14_Witness ==
    /\ RouterSucceeded
    /\ Len(response.nearest_users) = 3
    /\ FetchIndex(response.nearest_users[1]) = 3
    /\ response.nearest_users[2].distance_km =
           response.nearest_users[3].distance_km
    /\ RowDistance(FetchIndex(response.nearest_users[2])) #
           RowDistance(FetchIndex(response.nearest_users[3]))

\* C15: in /nearby, /nearby_by_coordinates and /api/find_nearest the
\* total_found of a response is the number of entries the same request has
\* with a limit that cuts nothing, whatever its own limit, and nearest_users
\* is the first min(limit, total_found) of them.
C15_TotalFoundBeforeTruncation ==
    Succeeded =>
        LET full == RankResult([req EXCEPT !.limit = 100])
        IN  /\ Len(full.nearest_users) = Cardinality(Included(full))
            /\ response.total_found = Len(full.nearest_users)
            /\ response.nearest_users =
                   Slice(full.nearest_users, req.limit)

\* C16: when max_distance_km is supplied, 0 included, no row farther from
\* the reference point than max_distance_km has an entry or is counted in
\* total_found, and every row not farther than it, a row at exactly
\* max_distance_km included, is kept.
C16_MaxDistanceFilter ==
    (Succeeded /\ req.max_distance_km # <<>>) =>
        LET full == RankResult([req EXCEPT !.limit = 100])
        IN  /\ Included(response) \subseteq Eligible
            /\ response.total_found <= Cardinality(Eligible)
            /\ Eligible \subseteq Included(full)

-----------------------------------------------------------------------------
(* Properties of POST /update_location at the boundary *)

Called == last_call # NoCall

InRange(latitude, longitude) ==
    /\ latitude >= -90 * Degree /\ latitude <= 90 * Degree
    /\ longitude >= -180 * Degree /\ longitude <= 180 * Degree

\* C17: a call with a latitude outside [-90, 90] or a longitude outside
\* [-180, 180] is answered with a validation error and leaves the table as
\* it found it; and every stored blob that decrypts holds a latitude in
\* [-90, 90] and a longitude in [-180, 180].
C17_CoordinatesValidated ==
    /\ (Called /\ ~InRange(last_call.body.latitude, last_call.body.longitude))
       => /\ last_call.status = 422
          /\ user_locations = last_call.before
    /\ \A r \in user_locations :
           LET dec == decrypt_location(r.encrypted_data)
           IN  dec.ok => InRange(dec.lat, dec.lon)

\* C18: the visibility of every row is 'public', 'hidden' or 'private', and
\* a call whose body carries another visibility is answered with a
\* validation error and leaves the table as it found it.
C18_VisibilityIsOneOfThree ==
    /\ \A r \in user_locations :
           r.visibility \in {"public", "hidden", "private"}
    /\ ( /\ Called
         /\ last_call.body.visibility # <<>>
         /\ last_call.body.visibility[1]
                \notin {"public", "hidden", "private"} )
       => /\ last_call.status = 422
          /\ user_locations = last_call.before

\* a call with visibility 'friends' for a user who has a row was answered
\* with 422
C18_Witness ==
    /\ Called
    /\ last_call.body.visibility = <<"friends">>
    /\ last_call.status = 422
    /\ RowsOf(user_locations, last_call.body.user_id) # {}

\* the visibility a body asks for
Asked(body) ==
    IF body.visibility = <<>> THEN "public" ELSE body.visibility[1]

\* C19: a call with coordinates in range and one of the three visibilities,
\* or none, succeeds whatever row is in place; after it the one row of its
\* user has the visibility of the body, and 'public' when the body has
\* none, whatever the visibility of the row in place was.
C19_VisibilitySetWholesale ==
    Called =>
        /\ ( /\ InRange(last_call.body.latitude, last_call.body.longitude)
             /\ Asked(last_call.body) \in VisibilityState )
           => last_call.status = 200
        /\ last_call.status = 200
           => /\ RowsOf(user_locations, last_call.body.user_id) # {}
              /\ \A r \in RowsOf(user_locations, last_call.body.user_id) :
                     r.visibility = Asked(last_call.body)

\* the call from visibility `from` to visibility `to` has succeeded
Transition(from, to) ==
    /\ Called
    /\ last_call.status = 200
    /\ \E r \in RowsOf(last_call.before, last_call.body.user_id) :
           r.visibility = from
    /\ \E r \in RowsOf(user_locations, last_call.body.user_id) :
           r.visibility = to

\* a call without visibility has made a private row public
C19_Witness ==
    /\ Transition("private", "public")
    /\ last_call.body.visibility = <<>>

-----------------------------------------------------------------------------
(* The requester's own row and its visibility *)

\* the table, with the visibility of the row of user_id set to visibility
WithVisibility(table, user_id, visibility) ==
    {IF r.user_id = user_id THEN [r EXCEPT !.visibility = visibility] ELSE r :
        r \in table}

\* what the self lookup and the candidate statement of a requester return on
\* a table
SelfIn(table, user_id, window) ==
    {BlobOf(r) : r \in {x \in table : /\ x.user_id = user_id
                                       /\ x.timestamp > now - window}}

OthersIn(table, user_id, window) ==
    {Columns(r) : r \in {x \in table : /\ x.user_id # user_id
                                        /\ x.visibility # "private"
                                        /\ x.timestamp > now - window}}

Fetched(rows) == {rows[i] : i \in 1..Len(rows)}

\* C20: every statement of /nearby returns what it would return if the
\* requester's own row were public, hidden or private: the self lookups
\* find the requester's row inside their window whatever its visibility and
\* take its blob as the reference point, the candidates and the response
\* are those of the table with the requester's row public; and
\* update_location for a user is possible whatever the visibility of the
\* row in place, and replaces that row.
C20_SelfLookupIgnoresVisibility ==
    [][ /\ \A v \in VisibilityState :
             LET table == WithVisibility(user_locations, req.user_id, v)
             IN  /\ (pc = "self48" /\ StatementStep)
                    => /\ pc' = "others48"
                          <=> SelfIn(table, req.user_id, PrimaryWindow) # {}
                       /\ pc' = "others48"
                          => user_location'[1] \in
                                 SelfIn(table, req.user_id, PrimaryWindow)
                 /\ (pc = "self7d" /\ StatementStep)
                    => /\ pc' = "others48"
                          <=> SelfIn(table, req.user_id, SecondaryWindow)
                                  # {}
                       /\ pc' = "others48"
                          => user_location'[1] \in
                                 SelfIn(table, req.user_id, SecondaryWindow)
                 /\ (pc = "others48" /\ StatementStep)
                    => Fetched(other_locations') =
                           OthersIn(table, req.user_id, PrimaryWindow)
                 /\ (pc = "others7d" /\ StatementStep)
                    => Fetched(other_locations') =
                           OthersIn(table, req.user_id, SecondaryWindow)
        /\ (Ends /\ pc \in {"others48", "others7d"})
           => response' = NearbyResult(req, user_location[1], time_window,
                                       other_locations')
        /\ \A r \in user_locations :
             /\ (pc # "done" /\ updates < MaxUpdates)
                => \A v \in VisibilityState :
                       ENABLED update_location(r.user_id, 0, 0, v, 1)
             /\ (updates' = updates + 1
                 /\ RowsOf(user_locations', r.user_id) # {r})
                => \E w \in RowsOf(user_locations', r.user_id) :
                       /\ w.timestamp = now
                       /\ decrypt_location(w.encrypted_data).ok
      ]_vars

\* /nearby has returned a candidate to a requester whose own row is private
C20_Witness ==
    /\ Succeeded
    /\ req.kind = "nearby"
    /\ response.nearest_users # <<>>
    /\ \E r \in SelfRows : r.visibility = "private"

-----------------------------------------------------------------------------
(* The requester in its own result *)

\* C21: no entry of the nearest_users of a /nearby response, and no
\* candidate row fetched for it, is for the user_id of the request,
\* whatever the visibility and the age of the requester's row and whichever
\* candidate statement has fetched the rows.
C21_RequesterNotReturned ==
    (pc = "done" /\ req.kind = "nearby") =>
        /\ \A row \in Fetched(other_locations) : row.user_id # req.user_id
        /\ response.status = 200
           => \A e \in Entries(response) : e.user_id # req.user_id

\* /nearby has returned a candidate to a requester whose own row is public
\* and newer than 48 hours
C21_Witness ==
    /\ Succeeded
    /\ req.kind = "nearby"
    /\ response.nearest_users # <<>>
    /\ \E r \in SelfRows : r.visibility = "public" /\ Age(r) < PrimaryWindow

-----------------------------------------------------------------------------
(* The cipher: round trip, tokens that must not decrypt, and the key *)

\* what decrypt_location returns for the row of a user
Decrypted(user_id) ==
    {decrypt_location(r.encrypted_data) : r \in RowsOf(user_locations, user_id)}

Pair(latitude, longitude) == [ok |-> TRUE, lat |-> latitude, lon |-> longitude]

-----------------------------------------------------------------------------
(* encryption.py on tokens: a pair is encrypted, the token is kept, changed  *)
(* in one of its parts or replaced, and then decrypted                       *)

\* nonces of the tokens
TokenIVs == {1, 2}

\* the call under way: the pair that was encrypted, and the token with the
\* way it came to be
TokenCall(origin, latitude, longitude, iv, token) ==
    [kind |-> "token", origin |-> origin, latitude |-> latitude,
     longitude |-> longitude, iv |-> iv, token |-> token]

\* the outputs of encrypt_location under the key of the process
Tokens ==
    {encrypt_location(latitude, longitude, iv) :
        latitude \in BodyLatitudes, longitude \in BodyLongitudes,
        iv \in TokenIVs}

\* lines 23-24: the tokens that differ from a token in exactly one of its
\* three parts; a tag with a bit flipped is the tag of no nonce
Changed(token) ==
    LET raw == b64decode(token)
        others == {b64decode(t) : t \in Tokens \ {token}}
    IN  [nonce |-> {b64encode([raw EXCEPT !.iv = iv]) :
                       iv \in TokenIVs \ {raw.iv}},
         tag |-> {b64encode([raw EXCEPT !.tag = [@ EXCEPT !.iv = 0]])}
                 \cup {b64encode([raw EXCEPT !.tag = o.tag]) : o \in others},
         ciphertext |-> {b64encode([raw EXCEPT !.ciphertext = o.ciphertext]) :
                            o \in others}]

\* strings that are no token: not base 64, shorter than a nonce and a tag,
\* and a Fernet token of tracker.py
Malformed ==
    {<<"text", [chars |-> "not a token"]>>,
     b64encode([iv |-> 1]),
     b64encode([iv |-> 1, tag |-> GcmTag(AES_KEY, 1, <<>>)]),
     tracker_encrypt_location(0, 0, 1)}

\* payloads that are not a coordinate pair: no JSON, an array, an object
\* without "lon", an object whose members are strings, an object whose
\* "lon" is null
Payloads ==
    {[type |-> "text"],
     [type |-> "array", items |-> <<FloatRepr(0), FloatRepr(0)>>],
     [type |-> "object", members |-> [lat |-> FloatRepr(0)]],
     [type |-> "object",
      members |-> [lat |-> [type |-> "string", chars |-> "north"],
                   lon |-> [type |-> "string", chars |-> "east"]]],
     [type |-> "object",
      members |-> [lat |-> FloatRepr(0), lon |-> [type |-> "null"]]]}

\* lines 14-18 on a payload: the payload authenticated under the key
Sealed(iv, data) ==
    LET ciphertext == GcmCiphertext(AES_KEY, iv, data)
    IN  b64encode([iv |-> iv, tag |-> GcmTag(AES_KEY, iv, ciphertext),
                   ciphertext |-> ciphertext])

InitCipher ==
    /\ \E secret \in Secrets : AES_KEY = derive_encryption_key(secret)
    /\ user_locations = {}
    /\ now = 0
    /\ pending = {}
    /\ updates = 0
    /\ last_call = NoCall
    /\ friendship_requests = {}
    /\ friendships = {}
    /\ store_errors = 0
    /\ pc = "plain"
    /\ \E latitude \in BodyLatitudes, longitude \in BodyLongitudes,
          iv \in TokenIVs :
         req = TokenCall("none", latitude, longitude, iv, <<>>)
    /\ user_location = <<>>
    /\ time_window = "none"
    /\ other_locations = <<>>
    /\ response = NoResponse

\* encrypt_location(latitude, longitude)
encrypt_call ==
    /\ Serving
    /\ pc = "plain"
    /\ pc' = "token"
    /\ req' = [req EXCEPT
                 !.origin = "encrypt",
                 !.token = encrypt_location(req.latitude, req.longitude,
                                            req.iv)]
    /\ UNCHANGED <<user_location, time_window, other_locations, response>>
    /\ UNCHANGED storeVars

\* the token is changed in one part before it is read back
change_token(part) ==
    /\ pc = "token"
    /\ req.origin = "encrypt"
    /\ \E token \in Changed(req.token)[part] :
         req' = [req EXCEPT !.origin = part, !.token = token]
    /\ UNCHANGED <<pc, user_location, time_window, other_locations, response>>
    /\ UNCHANGED storeVars

\* the token is replaced by a string that is no token
replace_token_malformed ==
    /\ pc = "token"
    /\ req.origin = "encrypt"
    /\ \E token \in Malformed :
         req' = [req EXCEPT !.origin = "malformed", !.token = token]
    /\ UNCHANGED <<pc, user_location, time_window, other_locations, response>>
    /\ UNCHANGED storeVars

\* the token is replaced by a payload authenticated under the key
replace_token_payload ==
    /\ pc = "token"
    /\ req.origin = "encrypt"
    /\ \E data \in Payloads :
         req' = [req EXCEPT !.origin = "payload",
                            !.token = Sealed(req.iv, data)]
    /\ UNCHANGED <<pc, user_location, time_window, other_locations, response>>
    /\ UNCHANGED storeVars

\* decrypt_location(token): the pair, or HTTPException(500)
decrypt_call ==
    LET location == decrypt_location(req.token)
    IN  /\ Serving
        /\ pc = "token"
        /\ pc' = "done"
        /\ response' = IF location.ok
                       THEN [status |-> 200, lat |-> location.lat,
                             lon |-> location.lon]
                       ELSE HTTPException(500)
        /\ UNCHANGED <<req, user_location, time_window, other_locations>>
        /\ UNCHANGED storeVars

DoChangeToken == \E part \in {"nonce", "tag", "ciphertext"} : change_token(part)

NextCipher ==
    \/ encrypt_call
    \/ DoChangeToken
    \/ replace_token_malformed
    \/ replace_token_payload
    \/ decrypt_call

SpecCipher == InitCipher /\ [][NextCipher]_vars

\* C23: decrypt_location of a token that was changed in its nonce, its tag
\* or its ciphertext, of a string that is no token, and of a payload that is
\* not a coordinate pair, raises HTTPException(500); a token that was not
\* changed gives the pair that was encrypted.
C23_FailsClosed ==
    pc = "done" =>
        IF req.origin = "encrypt"
        THEN response = [status |-> 200, lat |-> req.latitude,
                         lon |-> req.longitude]
        ELSE response = HTTPException(500)

\* the part of C23 on changed and malformed tokens
C23_TamperedFails ==
    (pc = "done" /\ req.origin \in {"nonce", "tag", "ciphertext", "malformed"})
        => response = HTTPException(500)

C23_TamperedWitness ==
    /\ pc = "done"
    /\ req.origin = "ciphertext"
    /\ response = HTTPException(500)

-----------------------------------------------------------------------------
(* The life of the process: it starts with or without ENCRYPTION_KEY in its  *)
(* environment, serves requests, and is restarted                            *)

InitStartup ==
    /\ \E secret \in Secrets \cup {NoSecret} :
         AES_KEY = derive_encryption_key(secret)
    /\ user_locations = {}
    /\ now = 0
    /\ pending = {}
    /\ updates = 0
    /\ last_call = NoCall
    /\ friendship_requests = {}
    /\ friendships = {}
    /\ store_errors = 0
    /\ pc = "idle"
    /\ req = NoRequest
    /\ user_location = <<>>
    /\ time_window = "none"
    /\ other_locations = <<>>
    /\ response = NoResponse

\* the process is started again, with or without the secret
DoStart == \E secret \in Secrets \cup {NoSecret} : Restart(secret)

NextStartup ==
    \/ DoStart
    \/ DoUpdateEncrypt
    \/ DoUpdateExecute
    \/ DoCoordsBegin
    \/ coords_fetch
    \/ DoNearbyBegin
    \/ nearby_self48
    \/ nearby_self7d
    \/ nearby_others48
    \/ nearby_others7d
    \/ deliver

SpecStartup == InitStartup /\ [][NextStartup]_vars

\* the keys under which the blobs of a set of rows or calls were sealed
KeysOf(rows) == {b64decode(r.encrypted_data).ciphertext.key : r \in rows}

\* C24: a process started without ENCRYPTION_KEY serves nothing: no request
\* is begun, continued or answered and no row is written until it is started
\* again.  A process started with the secret keeps the key it derived: the
\* key changes only when the process is started again, and every blob that
\* is encrypted or written is sealed under the key of the process.
C24_KeyAtStartup ==
    [][ /\ AES_KEY = StartupFailed =>
            /\ pc = "idle" /\ pending = {}
            /\ UNCHANGED <<user_locations, pending, updates, last_call>>
            /\ UNCHANGED queryVars
        /\ AES_KEY' # AES_KEY =>
            /\ pc' = "idle" /\ pending' = {}
            /\ UNCHANGED <<user_locations, updates>>
        /\ AES_KEY' = AES_KEY =>
            /\ KeysOf(pending' \ pending) \subseteq {AES_KEY}
            /\ KeysOf(user_locations' \ user_locations) \subseteq {AES_KEY}
      ]_vars

\* a process that has served, was started again without the secret, and has
\* calls left that it would serve
C24_Witness ==
    /\ AES_KEY = StartupFailed
    /\ user_locations # {}
    /\ updates < MaxUpdates

-----------------------------------------------------------------------------
(* /nearby and /nearby_by_coordinates at the edges of the windows: three     *)
(* users, a table that holds rows written at hour 0, and a clock that stops  *)
(* at 48, 120 and 168 hours                                                  *)

WindowUsers == {"u1", "u2", "u3"}

\* the hours at which the clock stops, and its steps
WindowClock == {48, 120, 168}
WindowSteps == {48, 72}

\* the rows that update_location calls at hour 0 have written: public, at
\* longitude 0 or 1
WindowTables ==
    {table \in SUBSET {Row(user_id,
                           encrypt_location(0, longitude, 1), "public", 0) :
                          user_id \in WindowUsers, longitude \in Longitudes} :
        \A r1, r2 \in table : r1.user_id = r2.user_id => r1 = r2}

InitWindows ==
    /\ \E secret \in Secrets : AES_KEY = derive_encryption_key(secret)
    /\ user_locations \in WindowTables
    /\ now = 0
    /\ pending = {}
    /\ updates = 0
    /\ last_call = NoCall
    /\ friendship_requests = {}
    /\ friendships = {}
    /\ store_errors = 0
    /\ pc = "idle"
    /\ req = NoRequest
    /\ user_location = <<>>
    /\ time_window = "none"
    /\ other_locations = <<>>
    /\ response = NoResponse

DoWindowTick == \E hours \in WindowSteps : Tick(hours) /\ now' \in WindowClock

DoWindowUpdate ==
    \E user_id \in WindowUsers, longitude \in Longitudes,
       visibility \in {"public", "private"} :
        update_location(user_id, 0, longitude, visibility, 1)

DoWindowCoords ==
    \E max_distance_km \in MaxDistances :
        coords_begin(0, 0, 1, max_distance_km)

DoWindowNearby ==
    \E max_distance_km \in MaxDistances :
        nearby_begin("u1", 2, max_distance_km)

NextWindows ==
    \/ DoWindowTick
    \/ DoWindowUpdate
    \/ DoWindowCoords
    \/ coords_fetch
    \/ DoWindowNearby
    \/ nearby_self48
    \/ nearby_self7d
    \/ nearby_others48
    \/ nearby_others7d
    \/ deliver

SpecWindows == InitWindows /\ [][NextWindows]_vars

\* C25: a row whose age is exactly 48 hours is found by the 48-hour
\* statements, and a row whose age is exactly 7 days by the 7-day
\* statements: the requester's row in the two lookups of /nearby, and the
\* rows that are not private in the candidate statements of both queries.
C25_InclusiveBoundary ==
    [][ /\ ( /\ pc = "self48" /\ StatementStep
             /\ \E r \in SelfRows : Age(r) = PrimaryWindow )
           => pc' = "others48"
        /\ ( /\ pc = "self7d" /\ StatementStep
             /\ \E r \in SelfRows : Age(r) = SecondaryWindow )
           => pc' = "others48"
        /\ (pc = "others48" /\ StatementStep)
           => \A r \in CandidateRows :
                 Age(r) = PrimaryWindow =>
                     Columns(r) \in Fetched(other_locations')
        /\ (pc = "others7d" /\ StatementStep)
           => \A r \in CandidateRows :
                 Age(r) = SecondaryWindow =>
                     Columns(r) \in Fetched(other_locations')
        /\ (pc = "coords48" /\ StatementStep)
           => \A r \in user_locations :
                 (r.visibility # "private" /\ Age(r) = PrimaryWindow) =>
                     Columns(r) \in Fetched(other_locations')
      ]_vars

\* what the code does at the edges: a row of exactly the age of the window
\* is not found
C25_ExclusiveBoundary ==
    [][ /\ ( /\ pc = "self48" /\ StatementStep
             /\ \A r \in SelfRows : Age(r) >= PrimaryWindow )
           => pc' = "self7d"
        /\ ( /\ pc = "self7d" /\ StatementStep
             /\ \A r \in SelfRows : Age(r) >= SecondaryWindow )
           => pc' = "done" /\ response'.status = 404
        /\ (pc \in {"others48", "coords48"} /\ StatementStep)
           => \A row \in Fetched(other_locations') :
                 \A r \in RowsOf(user_locations, row.user_id) :
                     Age(r) < PrimaryWindow
        /\ (pc = "others7d" /\ StatementStep)
           => \A row \in Fetched(other_locations') :
                 \A r \in RowsOf(user_locations, row.user_id) :
                     Age(r) < SecondaryWindow
      ]_vars

\* the distance of a row from the requester's row, in 1/10000 km
FromRequester(r) ==
    LET dec == decrypt_location(r.encrypted_data)
    IN  geodesic(ReferencePoint, <<dec.lat, dec.lon>>)

\* C29: in /nearby, when the 48-hour candidate statement returns a row, the
\* request ends in that step on the rows of that statement: the 7-day
\* statement is not executed, and every candidate returned has a row newer
\* than 48 hours, also when the distance filter removes all of them and the
\* response is empty.
C29_WidenOnRowCountOnly ==
    [][ ( /\ pc = "others48" /\ StatementStep
          /\ \E r \in CandidateRows : Age(r) < PrimaryWindow )
        => /\ pc' = "done"
           /\ Fetched(other_locations')
                = {Columns(r) : r \in {x \in CandidateRows :
                                          Age(x) < PrimaryWindow}}
           /\ response'.status \in {200, 500}
           /\ response'.status = 200 =>
                \A e \in Entries(response') :
                    \A r \in RowsOf(user_locations, e.user_id) :
                        Age(r) < PrimaryWindow
      ]_vars

\* /nearby with max_distance_km = 50 has succeeded with an empty list: the
\* one candidate newer than 48 hours is 111 km away, and a candidate 120
\* hours old is at the requester's point
C29_Witness ==
    /\ Succeeded
    /\ req.kind = "nearby"
    /\ req.max_distance_km = <<500000>>
    /\ response.nearest_users = <<>>
    /\ response.total_found = 0
    /\ \E r \in CandidateRows :
          Age(r) < PrimaryWindow /\ FromRequester(r) > 500000
    /\ \E r \in CandidateRows :
          /\ Age(r) > PrimaryWindow /\ Age(r) < SecondaryWindow
          /\ FromRequester(r) = 0

-----------------------------------------------------------------------------
(* routers/friend_router.py: POST /request, POST /accept and GET on the      *)
(* friends, each handler in one step; every user has a profile               *)

\* friendship_requests rows a run may hold
MaxRequests == 2

\* the handler under way, its caller (X-User-Id) and its argument
FriendCall(kind, current_user, argument) ==
    [kind |-> kind, user_id |-> current_user, argument |-> argument]

\* lines 153-156 and 274-277: the friend's row unless it is hidden
SelectFriendLocation(friend_id) ==
    {r \in user_locations : r.user_id = friend_id /\ r.visibility # "hidden"}

\* lines 253-256: the caller's own row
SelectCurrentUserLocation(current_user) ==
    {r \in user_locations : r.user_id = current_user}

\* lines 302-307: the distance between the two placeholder points
PlaceholderDistance ==
    [calculate_distance |-> <<"37.7749", "-122.4194", "37.7833", "-122.4167">>]

\* lines 44-111
send_friend_request(current_user, receiver_id) ==
    LET existing_request ==
            {r \in friendship_requests :
                \/ r.sender_id = current_user /\ r.receiver_id = receiver_id
                \/ /\ r.sender_id = receiver_id
                   /\ r.receiver_id = current_user
                   /\ r.status = "pending"}
        existing_friendship ==
            {f \in friendships :
                \/ f.user1_id = current_user /\ f.user2_id = receiver_id
                \/ f.user1_id = receiver_id /\ f.user2_id = current_user}
        request_id == Cardinality(friendship_requests) + 1
    IN  /\ Serving
        /\ pc = "idle"
        /\ Cardinality(friendship_requests) < MaxRequests
        /\ req' = FriendCall("request", current_user, receiver_id)
        /\ pc' = "done"
        /\ IF \/ current_user = receiver_id
              \/ existing_request # {}
              \/ existing_friendship # {}
           THEN /\ response' = HTTPException(400)
                /\ UNCHANGED friendship_requests
           ELSE /\ friendship_requests' = friendship_requests \cup
                      {[request_id |-> request_id,
                        sender_id |-> current_user,
                        receiver_id |-> receiver_id,
                        status |-> "pending"]}
                /\ response' = [status |-> 200, id |-> request_id]
        /\ UNCHANGED <<user_location, time_window, other_locations>>
        /\ UNCHANGED <<AES_KEY, user_locations, now, pending, updates,
                       last_call, friendships, store_errors>>

\* lines 114-175
accept_friend_request(current_user, request_id) ==
    LET friend_request ==
            {r \in friendship_requests :
                /\ r.request_id = request_id
                /\ r.receiver_id = current_user
                /\ r.status = "pending"}
    IN  /\ Serving
        /\ pc = "idle"
        /\ req' = FriendCall("accept", current_user, request_id)
        /\ pc' = "done"
        /\ IF friend_request = {}
           THEN /\ response' = HTTPException(404)
                /\ UNCHANGED <<friendship_requests, friendships>>
           ELSE \E r \in friend_request :
                  LET friend_location == SelectFriendLocation(r.sender_id)
                  IN  /\ friendship_requests' =
                            (friendship_requests \ {r})
                            \cup {[r EXCEPT !.status = "accepted"]}
                      /\ friendships' = friendships \cup
                            {[friendship_id |-> Cardinality(friendships) + 1,
                              user1_id |-> r.sender_id,
                              user2_id |-> r.receiver_id]}
                      /\ response' =
                            [status |-> 200,
                             userId |-> r.sender_id,
                             lastActive |->
                                 IF friend_location = {} THEN <<>>
                                 ELSE <<(CHOOSE l \in friend_location :
                                            TRUE).timestamp>>]
        /\ UNCHANGED <<user_location, time_window, other_locations>>
        /\ UNCHANGED <<AES_KEY, user_locations, now, pending, updates,
                       last_call, store_errors>>

\* lines 266-311: one entry of friends_list
Friend(current_user, friendship) ==
    LET friend_id == IF friendship.user1_id = current_user
                     THEN friendship.user2_id ELSE friendship.user1_id
        friend_location == SelectFriendLocation(friend_id)
    IN  [userId |-> friend_id,
         friendshipId |-> friendship.friendship_id,
         lastActive |-> IF friend_location = {} THEN <<>>
                        ELSE <<(CHOOSE l \in friend_location :
                                   TRUE).timestamp>>,
         distance |-> IF /\ SelectCurrentUserLocation(current_user) # {}
                         /\ friend_location # {}
                      THEN <<PlaceholderDistance>> ELSE <<>>]

\* line 314: the entries with a distance first (they all have the same), in
\* the order they had
SortFriends(friends_list) ==
    SelectSeq(friends_list, LAMBDA f : f.distance # <<>>)
    \o SelectSeq(friends_list, LAMBDA f : f.distance = <<>>)

\* lines 239-316
get_friends(current_user) ==
    LET mine == {f \in friendships :
                    f.user1_id = current_user \/ f.user2_id = current_user}
    IN  /\ Serving
        /\ pc = "idle"
        /\ req' = FriendCall("friends", current_user, <<>>)
        /\ pc' = "done"
        /\ \E rows \in Orderings(mine) :
             response' =
                 [status |-> 200,
                  friends_list |->
                      SortFriends([i \in 1..Len(rows) |->
                                      Friend(current_user, rows[i])])]
        /\ UNCHANGED <<user_location, time_window, other_locations>>
        /\ UNCHANGED storeVars

DoSendFriendRequest ==
    \E current_user \in Users, receiver_id \in Users :
        send_friend_request(current_user, receiver_id)

DoAcceptFriendRequest ==
    \E current_user \in Users, request_id \in 1..MaxRequests :
        accept_friend_request(current_user, request_id)

DoGetFriends == \E current_user \in Users : get_friends(current_user)

NextFriends ==
    \/ DoTick
    \/ DoUpdate
    \/ DoSendFriendRequest
    \/ DoAcceptFriendRequest
    \/ DoGetFriends
    \/ deliver

SpecFriends == Init /\ [][NextFriends]_vars

\* the rows of a user that are private
PrivateRows(user_id) ==
    {r \in RowsOf(user_locations, user_id) : r.visibility = "private"}

\* C26: a private row gives nothing to the friends queries of another user:
\* the response of POST /accept has no lastActive when the new friend's row
\* is private, and an entry of GET on the friends has no lastActive and no
\* distance when the friend's row is private.
C26_PrivateHiddenFromFriends ==
    (pc = "done" /\ response.status = 200) =>
        /\ req.kind = "accept" =>
             (PrivateRows(response.userId) # {} => response.lastActive = <<>>)
        /\ req.kind = "friends" =>
             \A i \in 1..Len(response.friends_list) :
                 LET friend == response.friends_list[i]
                 IN  PrivateRows(friend.userId) # {} =>
                         friend.lastActive = <<>> /\ friend.distance = <<>>

\* what the code does: only a row that is hidden gives nothing
C26_HiddenFromFriends ==
    (pc = "done" /\ response.status = 200) =>
        /\ req.kind = "accept" =>
             ( response.lastActive = <<>> <=>
                 \A r \in RowsOf(user_locations, response.userId) :
                     r.visibility = "hidden" )
        /\ req.kind = "friends" =>
             \A i \in 1..Len(response.friends_list) :
                 LET friend == response.friends_list[i]
                 IN  ( friend.lastActive = <<>> <=>
                         \A r \in RowsOf(user_locations, friend.userId) :
                             r.visibility = "hidden" )

-----------------------------------------------------------------------------
(* location_router.py: POST /api/nearby, the find_nearest_users that asks    *)
(* the table for the window after the list is built.  The handler has no     *)
(* time_window before line 289: until then the variable time_window records  *)
(* the lookup that found the requester's row.                                *)

LegacyRequest(user_id, limit, max_distance_km) ==
    [kind |-> "legacy", user_id |-> user_id, latitude |-> 0, longitude |-> 0,
     limit |-> limit, max_distance_km |-> max_distance_km]

\* lines 230-231
legacy_begin(user_id, limit, max_distance_km) ==
    /\ Serving
    /\ pc = "idle"
    /\ req' = LegacyRequest(user_id, limit, max_distance_km)
    /\ IF limit < 1 \/ limit > 100
       THEN /\ response' = HTTPException(400)
            /\ pc' = "done"
       ELSE /\ response' = NoResponse
            /\ pc' = "legacy_self48"
    /\ UNCHANGED <<user_location, time_window, other_locations>>
    /\ UNCHANGED storeVars

\* lines 236-243
legacy_self48 ==
    /\ pc = "legacy_self48"
    /\ LET found == SelectSelf(req.user_id, PrimaryWindow)
       IN  IF found = {}
           THEN /\ user_location' = <<>>
                /\ pc' = "legacy_self7d"
                /\ UNCHANGED time_window
           ELSE /\ \E r \in found : user_location' = <<r>>
                /\ pc' = "legacy_others48"
                /\ time_window' = "48 hours"
    /\ UNCHANGED <<req, other_locations, response>>
    /\ UNCHANGED storeVars

\* lines 244-252
legacy_self7d ==
    /\ pc = "legacy_self7d"
    /\ LET found == SelectSelf(req.user_id, SecondaryWindow)
       IN  IF found = {}
           THEN /\ user_location' = <<>>
                /\ response' = HTTPException(404)
                /\ pc' = "done"
                /\ UNCHANGED time_window
           ELSE /\ \E r \in found : user_location' = <<r>>
                /\ time_window' = "7 days"
                /\ pc' = "legacy_others48"
                /\ UNCHANGED response
    /\ UNCHANGED <<req, other_locations>>
    /\ UNCHANGED storeVars

\* lines 271-286 on the rows fetched: a decrypt_location that raises ends the
\* request, otherwise the list is built and the last statement follows
LegacyLoop(rows) ==
    IF NearbyResult(req, user_location[1], time_window, rows).status = 500
    THEN /\ response' = HTTPException(500)
         /\ pc' = "done"
    ELSE /\ pc' = "legacy_window"
         /\ UNCHANGED response

\* lines 255-263, and lines 271-286 when the rows are not empty
legacy_others48 ==
    /\ pc = "legacy_others48"
    /\ \E rows \in Orderings(SelectOthers(req.user_id, PrimaryWindow)) :
         /\ other_locations' = rows
         /\ IF rows = <<>>
            THEN /\ pc' = "legacy_others7d"
                 /\ UNCHANGED response
            ELSE LegacyLoop(rows)
    /\ UNCHANGED <<req, user_location, time_window>>
    /\ UNCHANGED storeVars

\* lines 264-286
legacy_others7d ==
    /\ pc = "legacy_others7d"
    /\ \E rows \in Orderings(SelectOthers(req.user_id, SecondaryWindow)) :
         /\ other_locations' = rows
         /\ LegacyLoop(rows)
    /\ UNCHANGED <<req, user_location, time_window>>
    /\ UNCHANGED storeVars

\* lines 289-304: the window is asked of the table, then the response
legacy_window ==
    /\ pc = "legacy_window"
    /\ response' =
           NearbyResult(req, user_location[1],
                        IF SelectSelf(req.user_id, PrimaryWindow) = {}
                        THEN "7 days" ELSE "48 hours",
                        other_locations)
    /\ pc' = "done"
    /\ UNCHANGED <<req, user_location, time_window, other_locations>>
    /\ UNCHANGED storeVars

DoLegacyBegin ==
    \E user_id \in Users, limit \in Limits, max_distance_km \in MaxDistances :
        legacy_begin(user_id, limit, max_distance_km)

NextLegacy ==
    \/ DoTick
    \/ DoUpdate
    \/ DoLegacyBegin
    \/ legacy_self48
    \/ legacy_self7d
    \/ legacy_others48
    \/ legacy_others7d
    \/ legacy_window
    \/ deliver

SpecLegacy == Init /\ [][NextLegacy]_vars

\* C27: POST /api/nearby reports the window of the lookup that found the
\* requester's row, also when an update_location of the requester is
\* committed between that lookup and the last statement.
C27_ReportedWindowIsResolvedWindow ==
    (pc = "done" /\ req.kind = "legacy" /\ response.status = 200) =>
        response.time_window = time_window

\* the requester's row was found under 7 days, an update_location of the
\* requester was committed before the last statement, and the response
\* reports "48 hours"
C27_UpdateBetween ==
    /\ pc = "done" /\ req.kind = "legacy" /\ response.status = 200
    /\ time_window = "7 days"
    /\ response.time_window = "48 hours"
    /\ \A r \in SelfRows : Age(r) = 0 /\ BlobOf(r) # user_location[1]

-----------------------------------------------------------------------------
(* Store calls that raise: the handlers of routers/location_router.py have   *)
(* no try around db.execute, db.fetchrow and db.fetch, and get_db has none   *)
(* around pool.acquire, so the exception of a store call leaves the handler  *)

\* store calls that raise in a run
MaxFaults == 2

\* the answer to a request whose handler raised something other than an
\* HTTPException
StoreError == [status |-> 500, detail |-> "Internal Server Error"]

\* the positions of a query at which a statement is about to be issued
StatementPositions == {"coords48", "self48", "self7d", "others48", "others7d"}

\* the statement at pc raises: the request ends with the error, and the
\* handler issues no further statement
query_statement_fails ==
    /\ pc \in StatementPositions
    /\ store_errors < MaxFaults
    /\ store_errors' = store_errors + 1
    /\ response' = StoreError
    /\ pc' = "done"
    /\ UNCHANGED <<req, user_location, time_window, other_locations>>
    /\ UNCHANGED <<AES_KEY, user_locations, now, pending, updates, last_call,
                   friendVars>>

\* the body of an update_location call
UpdateBody(user_id, latitude, longitude, visibility) ==
    [user_id |-> user_id, latitude |-> latitude, longitude |-> longitude,
     visibility |-> <<visibility>>]

\* as update_location_fails, with the statement issued again after it raised
update_location_fails_Retry(user_id, latitude, longitude, visibility, iv) ==
    /\ Serving
    /\ pc # "done"
    /\ updates < MaxUpdates
    /\ store_errors < MaxFaults
    /\ updates' = updates + 1
    /\ store_errors' = store_errors + 1
    /\ last_call' =
           Call(UpdateBody(user_id, latitude, longitude, visibility), 200)
    /\ UpsertStatement(user_id, encrypt_location(latitude, longitude, iv),
                       visibility)
    /\ UNCHANGED <<AES_KEY, now, pending, friendVars>>
    /\ UNCHANGED queryVars

\* update_location, lines 27-34, when db.execute raises: nothing is written
update_location_fails(user_id, latitude, longitude, visibility, iv) ==
    /\ Serving
    /\ pc # "done"
    /\ updates < MaxUpdates
    /\ store_errors < MaxFaults
    /\ updates' = updates + 1
    /\ store_errors' = store_errors + 1
    /\ last_call' =
           Call(UpdateBody(user_id, latitude, longitude, visibility), 500)
    /\ UNCHANGED <<AES_KEY, user_locations, now, pending, friendVars>>
    /\ UNCHANGED queryVars

DoUpdateFails ==
    \E user_id \in Users, latitude \in Latitudes, longitude \in Longitudes,
       visibility \in VisibilityState, iv \in IVs :
        update_location_fails(user_id, latitude, longitude, visibility, iv)

NextFailures ==
    \/ DoUpdate
    \/ DoUpdateFails
    \/ DoCoordsBegin
    \/ coords_fetch
    \/ DoNearbyBegin
    \/ nearby_self48
    \/ nearby_self7d
    \/ nearby_others48
    \/ nearby_others7d
    \/ query_statement_fails
    \/ deliver

SpecFailures == Init /\ [][NextFailures]_vars

\* the order of the statements of a query
Position(p) ==
    CASE p = "idle" -> 0
      [] p \in {"coords48", "self48"} -> 1
      [] p = "self7d" -> 2
      [] p = "others48" -> 3
      [] p = "others7d" -> 4
      [] p = "done" -> 5

\* C28: no store call is made twice.  A query moves through its statements
\* in order, each at most once, and an update_location call writes at most
\* one row; a store call that raises ends the request in that step with the
\* error, no statement follows it, and the table is as it was, for
\* update_location too.
C28_NoRetry ==
    [][ /\ pc' # pc =>
             \/ Position(pc') > Position(pc)
             \/ pc = "done" /\ pc' = "idle"
        /\ pc = "done" => UNCHANGED <<user_locations, store_errors>>
        /\ updates' # updates =>
             /\ updates' = updates + 1
             /\ Cardinality(user_locations' \ user_locations) <= 1
        /\ store_errors' # store_errors =>
             /\ store_errors' = store_errors + 1
             /\ UNCHANGED user_locations
             /\ \/ /\ pc \in StatementPositions
                   /\ pc' = "done"
                   /\ response' = StoreError
                   /\ UNCHANGED <<updates, last_call, other_locations>>
                \/ /\ updates' = updates + 1
                   /\ last_call'.status = 500
                   /\ UNCHANGED queryVars
      ]_vars

\* /nearby has ended with the error of its candidate statement after its
\* lookup of the requester's row had succeeded, and an update_location call
\* has failed on a table that holds a row
C28_Witness ==
    /\ pc = "done"
    /\ req.kind = "nearby"
    /\ response = StoreError
    /\ user_location # <<>>
    /\ other_locations = <<>>
    /\ Called /\ last_call.status = 500
    /\ user_locations # {}

-----------------------------------------------------------------------------
(* The queries and the table *)

\* C30: /nearby and /nearby_by_coordinates read only: no step of a query,
\* from the limit check to the response, whether it ends with 200, 400, 404
\* or 500, adds, removes or changes a row of user_locations.
C30_QueriesReadOnly ==
    [][ (queryVars' # queryVars) => UNCHANGED user_locations ]_vars

\* /nearby has ended with 404 and the requester's row, older than 7 days, is
\* in the table
C30_Witness ==
    /\ pc = "done"
    /\ req.kind = "nearby"
    /\ response.status = 404
    /\ \E r \in SelfRows : Age(r) > SecondaryWindow

\* the other ends of a query with the table in place: 400, 500 and 200
C30_Rejected ==
    /\ pc = "done" /\ response.status = 400 /\ user_locations # {}

C30_DecryptionError ==
    /\ pc = "done" /\ response.status = 500 /\ user_locations # {}

C30_Succeeded ==
    /\ Succeeded /\ req.kind = "coords" /\ response.nearest_users # <<>>

====
